---- MODULE Spec2Model ----
(***************************************************************************)
(* Model of the AgentTerminal component of the coding-agent frontend:      *)
(* the event reconciliation of the processedEvents memo (rawEvents ->      *)
(* eventCache, runningTools) and the session / task controller             *)
(* (createSession, startTask, stopTask, handleTaskEnd, the EventSource     *)
(* callbacks).                                                             *)
(*                                                                         *)
(* Strings the code inspects are modelled by their structure: an event     *)
(* type is the tuple of its dot-separated segments, a repository URL and a *)
(* query are tuples of tokens.  A cache key `event-<index>-<timestamp>` is *)
(* the tuple <<"event", index, timestamp>>, `tool-<name>-<timestamp>` is   *)
(* <<"tool", name, timestamp>>.                                            *)
(*                                                                         *)
(* Each handler is one atomic step.  A handler that changes rawEvents is   *)
(* followed by the render that recomputes the processedEvents memo, so the *)
(* reconciliation pass is part of the onmessage step.  An await splits a   *)
(* handler into the step before the fetch and the step of its outcome.     *)
(* View-only state (expandedEvents, selectedModel, lastUsedModelId,        *)
(* hasStartedFirstTask, the toast timer) is left out.                      *)
(*                                                                         *)
(* runBase and lastCall are history variables.  lastCall is written by     *)
(* SpecControl only, where every step records the handler it ran and its   *)
(* argument, so that a call the code rejects is a step that can be told    *)
(* from no step at all; the other specifications leave it unchanged.       *)
(***************************************************************************)
EXTENDS Naturals, Sequences, FiniteSets, TLC

\* ------------------------------------------------------------------ bounds
MaxEvents == 3          \* raw events kept in the Event Store (Spec)
MaxTs == 2              \* distinct timestamps an event can carry
MaxRuns == 2            \* task runs started in one behaviour
MaxPairEvents == 4      \* raw events kept in the Event Store (SpecPair)
MaxE2EEvents == 5       \* raw events kept in the Event Store (SpecE2E)
MaxLiveEvents == 2      \* raw events kept in the Event Store (SpecLive)
MaxCallEvents == 2      \* raw events kept in the Event Store (SpecControl)
MaxCacheEvents == 4     \* raw events kept in the Event Store (SpecCache)

Timestamps == 1..MaxTs
RunIds == 1..MaxRuns
ToolNames == {"read_file", "write_file"}

\* ------------------------------------------------------------ event types
T_TaskStart == <<"task", "start">>
T_TaskFinish == <<"task", "finish">>
T_TaskError == <<"task", "error">>
T_TaskEnd == <<"task", "end">>
T_LoopStart == <<"agent", "loop", "start">>
T_Thought == <<"llm", "thought">>
T_ToolStart == <<"llm", "tool_call", "start">>
T_ToolEnd == <<"llm", "tool_call", "end">>
T_SetupRepoEnd == <<"setup", "repo", "end">>
T_RepoClone == <<"repo", "clone">>
T_Keepalive == <<"stream", "keepalive">>

\* A value a field holds when the code never assigned it.
Undefined == <<>>
\* null, for the nullable useState values (sessionId, currentTaskId, repoInfo).
Null == <<>>
NoTool == ""

\* RawEvent { type, timestamp, data }; data is flattened into the fields the
\* component reads (tool_name, was_successful, response_preview, error).
RawEvent(type, ts, tool, ok, preview, err) ==
    [type |-> type, timestamp |-> ts, tool_name |-> tool,
     was_successful |-> ok, response_preview |-> preview, error |-> err]

PlainEvent(type, ts) == RawEvent(type, ts, NoTool, FALSE, Undefined, Undefined)
ToolStartEvent(name, ts) == RawEvent(T_ToolStart, ts, name, FALSE, Undefined, Undefined)
ToolEndEvent(name, ts, ok) ==
    RawEvent(T_ToolEnd, ts, name, ok,
             IF ok THEN <<"preview", ts>> ELSE Undefined,
             IF ok THEN Undefined ELSE <<"error", ts>>)
TaskErrorEvent(ts) == RawEvent(T_TaskError, ts, NoTool, FALSE, Undefined, <<"error", ts>>)

\* `type.startsWith(prefix + '.')` on the segment representation.
StartsWithNamespace(type, ns) == Len(type) > 1 /\ type[1] = ns

\* -------------------------------------------------------------- variables
VARIABLES
    sessionState,    \* useState<SessionState>
    sessionId,       \* useState<string | null>
    repoInfo,        \* useState<RepoInfo | null>
    isTaskRunning,   \* useState(false)
    currentTaskId,   \* useState<string | null>
    isStopping,      \* useState(false)
    rawEvents,       \* useState<RawEvent[]>: the Event Store
    eventCache,      \* useRef(Map<string, ProcessedEvent>): values in insertion order
    runningTools,    \* useRef(Map<string, string>): toolName -> key, Undefined if absent
    status,          \* useStatusToast: the last notification shown
    sessionReq,      \* the session-creation fetch in flight (TRUE) or not
    taskReq,         \* the task-creation fetch in flight: the id it will return, or Null
    stopReqs,        \* stop fetches in flight, counted per task id
    eventSources,    \* the EventSource objects not yet closed, by task id
    runs,            \* task-creation requests issued so far
    runBase,         \* history: Len(rawEvents) when the latest stream was opened
    lastCall         \* history: the handler the latest step of SpecControl ran

vars == <<sessionState, sessionId, repoInfo, isTaskRunning, currentTaskId, isStopping,
          rawEvents, eventCache, runningTools, status, sessionReq, taskReq, stopReqs,
          eventSources, runs, runBase>>

\* vars and the history of calls.
allVars == <<vars, lastCall>>

sessionVars == <<sessionState, sessionId, repoInfo, sessionReq>>
taskVars == <<isTaskRunning, currentTaskId, isStopping>>
storeVars == <<rawEvents, eventCache, runningTools>>

TaskId(n) == <<"task", n>>

\* ------------------------------------------------------- View-Model Cache
\* eventCache is a JS Map: a sequence of values in insertion order, each
\* carrying its key.  `obj` is the identity of the record object: the pass
\* and the index of the event that built it.
CacheHas(cache, key) == \E i \in 1..Len(cache) : cache[i].key = key
CacheIndex(cache, key) == CHOOSE i \in 1..Len(cache) : cache[i].key = key
CacheGet(cache, key) == cache[CacheIndex(cache, key)]
\* Mutant of CacheSet: Map.set moves an existing key to the end.
CacheSet_MovesToEnd(cache, key, rec) ==
    Append(SelectSeq(cache, LAMBDA r : r.key # key), rec)

\* Mutant of CacheSet: Map.set adds an entry also for an existing key.
CacheSet_AlwaysAppends(cache, key, rec) == Append(cache, rec)

\* Map.set: an existing key keeps its position and gets the new value.
CacheSet(cache, key, rec) ==
    IF CacheHas(cache, key)
    THEN [cache EXCEPT ![CacheIndex(cache, key)] = rec]
    ELSE Append(cache, rec)

EmptyTools == [n \in ToolNames |-> Undefined]

ProcessedEvent(key, displayType, message, event, obj) ==
    [key |-> key, displayType |-> displayType, message |-> message,
     status |-> "", toolName |-> NoTool, output |-> Undefined, error |-> Undefined,
     timestamp |-> event.timestamp, raw |-> event, obj |-> obj]

\* Mutant of ToolCallEvent: the key carries the identity of the record object.
ToolCallEvent_KeyFromObject(key, event, obj) ==
    [key |-> <<key, obj[1]>>, displayType |-> "TOOL_CALL", message |-> <<>>,
     status |-> "running", toolName |-> event.tool_name,
     output |-> Undefined, error |-> Undefined,
     timestamp |-> event.timestamp, raw |-> event, obj |-> obj]

ToolCallEvent(key, event, obj) ==
    [key |-> key, displayType |-> "TOOL_CALL", message |-> <<>>,
     status |-> "running", toolName |-> event.tool_name,
     output |-> Undefined, error |-> Undefined,
     timestamp |-> event.timestamp, raw |-> event, obj |-> obj]

EventKey(index, event) == <<"event", index, event.timestamp>>
\* Mutant of ToolKey: the key leaves out the tool name.
ToolKey_NoName(event) == <<"tool", NoTool, event.timestamp>>

ToolKey(event) == <<"tool", event.tool_name, event.timestamp>>

\* Mutant of ToolUpdated: the resolved record takes the end event's timestamp
\* into its key.
ToolUpdated_Rekeyed(rec, event) ==
    IF event.was_successful
    THEN [rec EXCEPT !.status = "completed", !.output = event.response_preview,
                     !.key = <<"tool", event.tool_name, event.timestamp>>]
    ELSE [rec EXCEPT !.status = "error", !.error = event.error,
                     !.key = <<"tool", event.tool_name, event.timestamp>>]

\* Mutant of ToolUpdated: the status is set, the output is not.
ToolUpdated_NoOutput(rec, event) ==
    IF event.was_successful
    THEN [rec EXCEPT !.status = "completed"]
    ELSE [rec EXCEPT !.status = "error", !.error = event.error]

\* Mutant of ToolUpdated: a failed end writes its error into the output too.
ToolUpdated_ErrorAsOutput(rec, event) ==
    IF event.was_successful
    THEN [rec EXCEPT !.status = "completed", !.output = event.response_preview]
    ELSE [rec EXCEPT !.status = "error", !.error = event.error, !.output = event.error]

\* The end event's in-place mutation of the running record.
ToolUpdated(rec, event) ==
    IF event.was_successful
    THEN [rec EXCEPT !.status = "completed", !.output = event.response_preview]
    ELSE [rec EXCEPT !.status = "error", !.error = event.error]

\* Mutant of ReconcileEvent: runningTools.delete is missing from the end case.
ReconcileEvent_NoDelete(st, event, index, pass) ==
    LET key == EventKey(index, event)
        obj == <<pass, index>>
        put(rec) == [st EXCEPT !.cache = CacheSet(st.cache, rec.key, rec)]
    IN  IF CacheHas(st.cache, key) THEN st
        ELSE CASE event.type = T_TaskStart ->
                    put(ProcessedEvent(key, "TASK_LIFECYCLE", <<"Task started">>, event, obj))
               [] event.type = T_TaskFinish ->
                    put(ProcessedEvent(key, "TASK_LIFECYCLE", <<"Task completed successfully">>, event, obj))
               [] event.type = T_TaskError ->
                    put(ProcessedEvent(key, "ERROR", event.error, event, obj))
               [] event.type = T_LoopStart ->
                    put(ProcessedEvent(key, "TASK_LIFECYCLE", <<"Agent started working on the task">>, event, obj))
               [] event.type = T_Thought ->
                    put(ProcessedEvent(key, "LLM_THOUGHT", <<>>, event, obj))
               [] event.type = T_ToolStart ->
                    [cache |-> CacheSet(st.cache, ToolKey(event), ToolCallEvent(ToolKey(event), event, obj)),
                     tools |-> [st.tools EXCEPT ![event.tool_name] = ToolKey(event)]]
               [] event.type = T_ToolEnd ->
                    LET runningToolKey == st.tools[event.tool_name]
                    IN  IF runningToolKey # Undefined /\ CacheHas(st.cache, runningToolKey)
                        THEN [cache |-> [st.cache EXCEPT ![CacheIndex(st.cache, runningToolKey)] =
                                            ToolUpdated(@, event)],
                              tools |-> st.tools]
                        ELSE st
               [] OTHER -> st

\* The body of filteredRawEvents.forEach((event, index) => ...): st is the
\* pair of mutable maps, index is 0-based.
ReconcileEvent(st, event, index, pass) ==
    LET key == EventKey(index, event)
        obj == <<pass, index>>
        put(rec) == [st EXCEPT !.cache = CacheSet(st.cache, rec.key, rec)]
    IN  IF CacheHas(st.cache, key) THEN st
        ELSE CASE event.type = T_TaskStart ->
                    put(ProcessedEvent(key, "TASK_LIFECYCLE", <<"Task started">>, event, obj))
               [] event.type = T_TaskFinish ->
                    put(ProcessedEvent(key, "TASK_LIFECYCLE", <<"Task completed successfully">>, event, obj))
               [] event.type = T_TaskError ->
                    put(ProcessedEvent(key, "ERROR", event.error, event, obj))
               [] event.type = T_LoopStart ->
                    put(ProcessedEvent(key, "TASK_LIFECYCLE", <<"Agent started working on the task">>, event, obj))
               [] event.type = T_Thought ->
                    put(ProcessedEvent(key, "LLM_THOUGHT", <<>>, event, obj))
               [] event.type = T_ToolStart ->
                    [cache |-> CacheSet(st.cache, ToolKey(event), ToolCallEvent(ToolKey(event), event, obj)),
                     tools |-> [st.tools EXCEPT ![event.tool_name] = ToolKey(event)]]
               [] event.type = T_ToolEnd ->
                    LET runningToolKey == st.tools[event.tool_name]
                    IN  IF runningToolKey # Undefined /\ CacheHas(st.cache, runningToolKey)
                        THEN [cache |-> [st.cache EXCEPT ![CacheIndex(st.cache, runningToolKey)] =
                                            ToolUpdated(@, event)],
                              tools |-> [st.tools EXCEPT ![event.tool_name] = Undefined]]
                        ELSE st
               [] OTHER -> st

\* Mutant of filteredRawEvents: only the repo. namespace is filtered out.
filteredRawEvents_KeepsSetup(raw) ==
    SelectSeq(raw, LAMBDA e : ~StartsWithNamespace(e.type, "repo"))

filteredRawEvents(raw) ==
    SelectSeq(raw, LAMBDA e : ~StartsWithNamespace(e.type, "repo")
                              /\ ~StartsWithNamespace(e.type, "setup"))

\* Mutant of ReconcileFrom: the pass visits the events from the last to the
\* first.
RECURSIVE ReconcileFrom_Reverse(_, _, _, _)
ReconcileFrom_Reverse(st, filtered, i, pass) ==
    IF i > Len(filtered) THEN st
    ELSE ReconcileFrom_Reverse(ReconcileEvent(st, filtered[Len(filtered) - i + 1],
                                              Len(filtered) - i, pass),
                               filtered, i + 1, pass)

RECURSIVE ReconcileFrom(_, _, _, _)
ReconcileFrom(st, filtered, i, pass) ==
    IF i > Len(filtered) THEN st
    ELSE ReconcileFrom(ReconcileEvent(st, filtered[i], i - 1, pass), filtered, i + 1, pass)

\* Mutant of processedEvents: the pass visits the last event only.
processedEvents_OnlyLast(cache, tools, raw) ==
    LET filtered == filteredRawEvents(raw)
    IN  ReconcileFrom([cache |-> cache, tools |-> tools], filtered,
                      IF filtered = <<>> THEN 1 ELSE Len(filtered), Len(raw))

\* The processedEvents memo, recomputed by the render that follows a change
\* of rawEvents: one pass over the whole filtered Event Store.
processedEvents(cache, tools, raw) ==
    ReconcileFrom([cache |-> cache, tools |-> tools], filteredRawEvents(raw), 1, Len(raw))

\* ------------------------------------------------------------ user inputs
\* A repository URL and a query are tuples of tokens; " " is whitespace.
RepoUrls == { <<>>, <<" ">>, <<"https://", "gitlab.com", "/o/r">>,
              <<" ", "https://", "github.com", "/o/r">> }
Queries == { <<>>, <<" ">>, <<"fix", " ", "bug">> }

RECURSIVE TrimStart(_)
TrimStart(s) == IF s # <<>> /\ Head(s) = " " THEN TrimStart(Tail(s)) ELSE s
RECURSIVE TrimEnd(_)
TrimEnd(s) == IF s # <<>> /\ s[Len(s)] = " " THEN TrimEnd(SubSeq(s, 1, Len(s) - 1)) ELSE s
\* String.prototype.trim
Trim(s) == TrimEnd(TrimStart(s))
\* String.prototype.includes, for a needle that is one token
Includes(s, token) == \E i \in 1..Len(s) : s[i] = token

\* ---------------------------------------------------------- notifications
NoStatus == [message |-> "", type |-> ""]
Toast(message, type) == [message |-> message, type |-> type]

\* A handler invocation: its name and its argument.
Call(op, arg) == [op |-> op, arg |-> arg]
NoCall == Call("", <<>>)

\* ------------------------------------------------------------------- Init
Init ==
    /\ sessionState = "NO_SESSION"
    /\ sessionId = Null
    /\ repoInfo = Null
    /\ isTaskRunning = FALSE
    /\ currentTaskId = Null
    /\ isStopping = FALSE
    /\ rawEvents = <<>>
    /\ eventCache = <<>>
    /\ runningTools = EmptyTools
    /\ status = NoStatus
    /\ sessionReq = FALSE
    /\ taskReq = Null
    /\ stopReqs = [r \in RunIds |-> 0]
    /\ eventSources = {}
    /\ runs = 0
    /\ runBase = 0
    /\ lastCall = NoCall

\* ---------------------------------------------------------------- session
\* Mutant of createSession: the well-formedness test is missing.
createSession_NoValidation(repoUrl) ==
    /\ sessionState = "NO_SESSION"
    /\ sessionState' = "CREATING_SESSION"
    /\ status' = Toast("Setting up repository environment...", "info")
    /\ eventCache' = <<>>
    /\ runningTools' = EmptyTools
    /\ rawEvents' = <<>>
    /\ sessionReq' = TRUE
    /\ UNCHANGED <<sessionId, repoInfo, taskVars, taskReq, stopReqs,
                   eventSources, runs, runBase>>

\* Mutant of createSession: the setup form is rendered in every session state.
createSession_FromAnyState(repoUrl) ==
    IF Trim(repoUrl) = <<>> \/ ~Includes(repoUrl, "github.com")
    THEN /\ status' = Toast("Please enter a valid GitHub repository URL", "error")
         /\ UNCHANGED <<sessionVars, taskVars, storeVars, taskReq, stopReqs,
                        eventSources, runs, runBase>>
    ELSE /\ sessionState' = "CREATING_SESSION"
         /\ status' = Toast("Setting up repository environment...", "info")
         /\ eventCache' = <<>>
         /\ runningTools' = EmptyTools
         /\ rawEvents' = <<>>
         /\ sessionReq' = TRUE
         /\ UNCHANGED <<sessionId, repoInfo, taskVars, taskReq, stopReqs,
                        eventSources, runs, runBase>>

\* Mutant of createSession: the setup form is not disabled while
\* CREATING_SESSION.
createSession_WhileCreating(repoUrl) ==
    /\ sessionState # "SESSION_ACTIVE"
    /\ IF Trim(repoUrl) = <<>> \/ ~Includes(repoUrl, "github.com")
       THEN /\ status' = Toast("Please enter a valid GitHub repository URL", "error")
            /\ UNCHANGED <<sessionVars, taskVars, storeVars, taskReq, stopReqs,
                           eventSources, runs, runBase>>
       ELSE /\ sessionState' = "CREATING_SESSION"
            /\ status' = Toast("Setting up repository environment...", "info")
            /\ eventCache' = <<>>
            /\ runningTools' = EmptyTools
            /\ rawEvents' = <<>>
            /\ sessionReq' = TRUE
            /\ UNCHANGED <<sessionId, repoInfo, taskVars, taskReq, stopReqs,
                           eventSources, runs, runBase>>

\* createSession up to the await of the fetch.  The setup form that calls it
\* is rendered while sessionState # SESSION_ACTIVE and is disabled while
\* CREATING_SESSION.
createSession(repoUrl) ==
    /\ sessionState = "NO_SESSION"
    /\ IF Trim(repoUrl) = <<>> \/ ~Includes(repoUrl, "github.com")
       THEN /\ status' = Toast("Please enter a valid GitHub repository URL", "error")
            /\ UNCHANGED <<sessionVars, taskVars, storeVars, taskReq, stopReqs,
                           eventSources, runs, runBase>>
       ELSE /\ sessionState' = "CREATING_SESSION"
            /\ status' = Toast("Setting up repository environment...", "info")
            /\ eventCache' = <<>>
            /\ runningTools' = EmptyTools
            /\ rawEvents' = <<>>
            /\ sessionReq' = TRUE
            /\ UNCHANGED <<sessionId, repoInfo, taskVars, taskReq, stopReqs,
                           eventSources, runs, runBase>>

\* The fetch resolves with response.ok: the rest of the try block.
createSessionOk(isFork) ==
    /\ sessionReq
    /\ sessionReq' = FALSE
    /\ sessionId' = <<"session">>
    /\ repoInfo' = <<"owner", "name", isFork>>
    /\ sessionState' = "SESSION_ACTIVE"
    /\ status' = Toast(IF isFork THEN "Repository forked and ready."
                                 ELSE "Repository connected and ready.", "success")
    /\ UNCHANGED <<taskVars, storeVars, taskReq, stopReqs, eventSources, runs, runBase>>

\* Mutant of createSessionFail: setSessionState('NO_SESSION') is missing.
createSessionFail_StaysCreating ==
    /\ sessionReq
    /\ sessionReq' = FALSE
    /\ status' = Toast("Session setup failed", "error")
    /\ sessionState' = sessionState
    /\ UNCHANGED <<sessionId, repoInfo, taskVars, storeVars, taskReq, stopReqs,
                   eventSources, runs, runBase>>

\* The fetch rejects or answers !response.ok: the catch block.
createSessionFail ==
    /\ sessionReq
    /\ sessionReq' = FALSE
    /\ status' = Toast("Session setup failed", "error")
    /\ sessionState' = "NO_SESSION"
    /\ UNCHANGED <<sessionId, repoInfo, taskVars, storeVars, taskReq, stopReqs,
                   eventSources, runs, runBase>>

\* ------------------------------------------------------------------- task
\* Mutant of handleTaskEnd: setIsStopping(false) is missing.
handleTaskEnd_KeepsStopping(isError, shown) ==
    /\ isTaskRunning' = FALSE
    /\ currentTaskId' = Null
    /\ isStopping' = isStopping
    /\ status' = IF isError THEN shown
                 ELSE Toast("Task finished. Ready for next command.", "success")

\* Mutant of handleTaskEnd: a failed run is not taken out of running.
handleTaskEnd_ErrorStaysRunning(isError, shown) ==
    /\ isTaskRunning' = (isError /\ isTaskRunning)
    /\ currentTaskId' = Null
    /\ isStopping' = FALSE
    /\ status' = IF isError THEN shown
                 ELSE Toast("Task finished. Ready for next command.", "success")

\* Mutant of handleTaskEnd: setCurrentTaskId(null) is missing.
handleTaskEnd_KeepsTaskId(isError, shown) ==
    /\ isTaskRunning' = FALSE
    /\ currentTaskId' = currentTaskId
    /\ isStopping' = FALSE
    /\ status' = IF isError THEN shown
                 ELSE Toast("Task finished. Ready for next command.", "success")

\* handleTaskEnd(isError); shown is the toast set just before the call.
handleTaskEnd(isError, shown) ==
    /\ isTaskRunning' = FALSE
    /\ currentTaskId' = Null
    /\ isStopping' = FALSE
    /\ status' = IF isError THEN shown
                 ELSE Toast("Task finished. Ready for next command.", "success")

\* Mutant of startTask: the isTaskRunning test is missing.
startTask_WhileRunning(query) ==
    IF Trim(query) = <<>> \/ sessionId = Null
    THEN UNCHANGED vars
    ELSE /\ runs < MaxRuns
         /\ runningTools' = EmptyTools
         /\ isTaskRunning' = TRUE
         /\ status' = Toast("Agent starting...", "info")
         /\ runs' = runs + 1
         /\ taskReq' = TaskId(runs + 1)
         /\ UNCHANGED <<sessionVars, currentTaskId, isStopping, rawEvents, eventCache,
                        stopReqs, eventSources, runBase>>

\* startTask up to the await of the fetch.
startTask(query) ==
    IF Trim(query) = <<>> \/ sessionId = Null \/ isTaskRunning
    THEN UNCHANGED vars
    ELSE /\ runs < MaxRuns
         /\ runningTools' = EmptyTools
         /\ isTaskRunning' = TRUE
         /\ status' = Toast("Agent starting...", "info")
         /\ runs' = runs + 1
         /\ taskReq' = TaskId(runs + 1)
         /\ UNCHANGED <<sessionVars, currentTaskId, isStopping, rawEvents, eventCache,
                        stopReqs, eventSources, runBase>>

\* The task-creation fetch resolves: the task id is stored and the stream opened.
startTaskOk ==
    /\ taskReq # Null
    /\ currentTaskId' = taskReq
    /\ eventSources' = eventSources \cup {taskReq}
    /\ taskReq' = Null
    /\ runBase' = Len(rawEvents)
    /\ UNCHANGED <<sessionVars, isTaskRunning, isStopping, storeVars, status, stopReqs, runs>>

\* Mutant of startTaskFail: handleTaskEnd(true) is missing.
startTaskFail_StaysRunning ==
    /\ taskReq # Null
    /\ taskReq' = Null
    /\ status' = Toast("Failed to start task", "error")
    /\ UNCHANGED <<sessionVars, taskVars, storeVars, stopReqs, eventSources, runs, runBase>>

\* The task-creation fetch fails: the catch block.
startTaskFail ==
    /\ taskReq # Null
    /\ taskReq' = Null
    /\ handleTaskEnd(TRUE, Toast("Failed to start task", "error"))
    /\ UNCHANGED <<sessionVars, storeVars, stopReqs, eventSources, runs, runBase>>

\* Mutant of onmessage: the stream.keepalive test is missing.
onmessage_KeepaliveStored(id, event) ==
    /\ id \in eventSources
    /\ LET raw == Append(rawEvents, event)
           st == processedEvents(eventCache, runningTools, raw)
       IN  /\ rawEvents' = raw
           /\ eventCache' = st.cache
           /\ runningTools' = st.tools
           /\ CASE event.type = T_Thought ->
                     /\ status' = Toast("Agent is thinking...", "info")
                     /\ UNCHANGED <<taskVars, eventSources>>
                [] event.type = T_ToolStart ->
                     /\ status' = Toast("Executing", "info")
                     /\ UNCHANGED <<taskVars, eventSources>>
                [] event.type = T_TaskFinish ->
                     /\ eventSources' = eventSources \ {id}
                     /\ handleTaskEnd(FALSE, status)
                [] event.type = T_TaskError ->
                     /\ eventSources' = eventSources \ {id}
                     /\ handleTaskEnd(TRUE, Toast("task error", "error"))
                [] OTHER ->
                     UNCHANGED <<taskVars, eventSources, status>>
           /\ UNCHANGED <<sessionVars, taskReq, stopReqs, runs, runBase>>

\* Mutant of onmessage: task.finish does not close the stream.
onmessage_NoClose(id, event) ==
    /\ id \in eventSources
    /\ IF event.type = T_Keepalive
       THEN UNCHANGED vars
       ELSE LET raw == Append(rawEvents, event)
                st == processedEvents(eventCache, runningTools, raw)
            IN  /\ rawEvents' = raw
                /\ eventCache' = st.cache
                /\ runningTools' = st.tools
                /\ CASE event.type = T_Thought ->
                          /\ status' = Toast("Agent is thinking...", "info")
                          /\ UNCHANGED <<taskVars, eventSources>>
                     [] event.type = T_ToolStart ->
                          /\ status' = Toast("Executing", "info")
                          /\ UNCHANGED <<taskVars, eventSources>>
                     [] event.type = T_TaskFinish ->
                          /\ eventSources' = eventSources
                          /\ handleTaskEnd(FALSE, status)
                     [] event.type = T_TaskError ->
                          /\ eventSources' = eventSources \ {id}
                          /\ handleTaskEnd(TRUE, Toast("task error", "error"))
                     [] OTHER ->
                          UNCHANGED <<taskVars, eventSources, status>>
                /\ UNCHANGED <<sessionVars, taskReq, stopReqs, runs, runBase>>

\* eventSource.onmessage of the stream of task id, with the render that the
\* change of rawEvents triggers.
onmessage(id, event) ==
    /\ id \in eventSources
    /\ IF event.type = T_Keepalive
       THEN UNCHANGED vars
       ELSE LET raw == Append(rawEvents, event)
                st == processedEvents(eventCache, runningTools, raw)
            IN  /\ rawEvents' = raw
                /\ eventCache' = st.cache
                /\ runningTools' = st.tools
                /\ CASE event.type = T_Thought ->
                          /\ status' = Toast("Agent is thinking...", "info")
                          /\ UNCHANGED <<taskVars, eventSources>>
                     [] event.type = T_ToolStart ->
                          /\ status' = Toast("Executing", "info")
                          /\ UNCHANGED <<taskVars, eventSources>>
                     [] event.type = T_TaskFinish ->
                          /\ eventSources' = eventSources \ {id}
                          /\ handleTaskEnd(FALSE, status)
                     [] event.type = T_TaskError ->
                          /\ eventSources' = eventSources \ {id}
                          /\ handleTaskEnd(TRUE, Toast("task error", "error"))
                     [] OTHER ->
                          UNCHANGED <<taskVars, eventSources, status>>
                /\ UNCHANGED <<sessionVars, taskReq, stopReqs, runs, runBase>>

\* Mutant of onerror: eventSource.close() is missing.
onerror_StreamStaysOpen(id) ==
    /\ id \in eventSources
    /\ eventSources' = eventSources
    /\ handleTaskEnd(TRUE, Toast("Stream connection lost.", "error"))
    /\ UNCHANGED <<sessionVars, storeVars, taskReq, stopReqs, runs, runBase>>

\* Mutant of onerror: the stream is closed, handleTaskEnd is not called.
onerror_NoTaskEnd(id) ==
    /\ id \in eventSources
    /\ eventSources' = eventSources \ {id}
    /\ status' = Toast("Stream connection lost.", "error")
    /\ UNCHANGED <<sessionVars, taskVars, storeVars, taskReq, stopReqs, runs, runBase>>

\* eventSource.onerror
onerror(id) ==
    /\ id \in eventSources
    /\ eventSources' = eventSources \ {id}
    /\ handleTaskEnd(TRUE, Toast("Stream connection lost.", "error"))
    /\ UNCHANGED <<sessionVars, storeVars, taskReq, stopReqs, runs, runBase>>

\* Mutant of stopTask: the stop also discards the Event Store and the cache.
stopTask_ClearsStore ==
    IF currentTaskId = Null \/ isStopping
    THEN UNCHANGED vars
    ELSE /\ isStopping' = TRUE
         /\ status' = Toast("Sending stop signal...", "info")
         /\ stopReqs' = [stopReqs EXCEPT ![currentTaskId[2]] = @ + 1]
         /\ rawEvents' = <<>>
         /\ eventCache' = <<>>
         /\ UNCHANGED <<sessionVars, isTaskRunning, currentTaskId, runningTools, taskReq,
                        eventSources, runs, runBase>>

\* stopTask up to the await of the fetch.
stopTask ==
    IF currentTaskId = Null \/ isStopping
    THEN UNCHANGED vars
    ELSE /\ isStopping' = TRUE
         /\ status' = Toast("Sending stop signal...", "info")
         /\ stopReqs' = [stopReqs EXCEPT ![currentTaskId[2]] = @ + 1]
         /\ UNCHANGED <<sessionVars, isTaskRunning, currentTaskId, storeVars, taskReq,
                        eventSources, runs, runBase>>

\* Mutant of stopTaskOk: an accepted stop discards the Event Store and the cache.
stopTaskOk_DiscardsRun(r) ==
    /\ stopReqs[r] > 0
    /\ stopReqs' = [stopReqs EXCEPT ![r] = @ - 1]
    /\ status' = Toast("Stop signal accepted. Waiting for agent to terminate.", "success")
    /\ rawEvents' = <<>>
    /\ eventCache' = <<>>
    /\ UNCHANGED <<sessionVars, taskVars, runningTools, taskReq, eventSources, runs, runBase>>

\* The stop fetch of task r resolves with response.ok.
stopTaskOk(r) ==
    /\ stopReqs[r] > 0
    /\ stopReqs' = [stopReqs EXCEPT ![r] = @ - 1]
    /\ status' = Toast("Stop signal accepted. Waiting for agent to terminate.", "success")
    /\ UNCHANGED <<sessionVars, taskVars, storeVars, taskReq, eventSources, runs, runBase>>

\* Mutant of stopTaskFail: setIsStopping(false) is missing.
stopTaskFail_StaysStopping(r) ==
    /\ stopReqs[r] > 0
    /\ stopReqs' = [stopReqs EXCEPT ![r] = @ - 1]
    /\ status' = Toast("Stop request failed", "error")
    /\ isStopping' = isStopping
    /\ UNCHANGED <<sessionVars, isTaskRunning, currentTaskId, storeVars, taskReq,
                   eventSources, runs, runBase>>

\* The stop fetch of task r fails: the catch block.
stopTaskFail(r) ==
    /\ stopReqs[r] > 0
    /\ stopReqs' = [stopReqs EXCEPT ![r] = @ - 1]
    /\ status' = Toast("Stop request failed", "error")
    /\ isStopping' = FALSE
    /\ UNCHANGED <<sessionVars, isTaskRunning, currentTaskId, storeVars, taskReq,
                   eventSources, runs, runBase>>

\* ------------------------------------------------------- stream alphabets
PlainTypes == {T_TaskStart, T_LoopStart, T_Thought, T_TaskEnd, T_SetupRepoEnd}

\* Every kind of message the stream can deliver.  The timestamp decides a
\* cache key for a tool start only, so only tool starts range over Timestamps.
StreamEvents ==
    {PlainEvent(t, 1) : t \in PlainTypes \cup {T_TaskFinish, T_Keepalive}}
    \cup {TaskErrorEvent(1)}
    \cup {ToolStartEvent(n, ts) : n \in ToolNames, ts \in Timestamps}
    \cup {ToolEndEvent(n, 1, ok) : n \in ToolNames, ok \in BOOLEAN}

\* One message of each kind the controller distinguishes.
ControlEvents ==
    {PlainEvent(t, 1) : t \in {T_Thought, T_TaskEnd, T_SetupRepoEnd,
                               T_TaskFinish, T_Keepalive}}
    \cup {TaskErrorEvent(1), ToolStartEvent("read_file", 1),
          ToolEndEvent("read_file", 1, TRUE)}

\* The messages that matter to the life of a run.
LiveEvents ==
    {PlainEvent(T_TaskFinish, 1), TaskErrorEvent(1), ToolEndEvent("read_file", 1, TRUE)}

\* The messages of the end-to-end scenario.
E2EEvents ==
    {PlainEvent(T_TaskStart, 1), ToolStartEvent("read_file", 1),
     ToolEndEvent("read_file", 1, TRUE), PlainEvent(T_TaskFinish, 1)}

ValidRepoUrl == <<" ", "https://", "github.com", "/o/r">>
ValidQuery == <<"fix", " ", "bug">>

\* ------------------------------------------------------------------- Next
UserStep ==
    \/ \E u \in RepoUrls : createSession(u) /\ UNCHANGED lastCall
    \/ \E q \in Queries : startTask(q) /\ UNCHANGED lastCall
    \/ stopTask /\ UNCHANGED lastCall

ResponseStep ==
    \/ \E f \in BOOLEAN : createSessionOk(f) /\ UNCHANGED lastCall
    \/ createSessionFail /\ UNCHANGED lastCall
    \/ startTaskOk /\ UNCHANGED lastCall
    \/ startTaskFail /\ UNCHANGED lastCall
    \/ \E r \in RunIds : stopTaskOk(r) /\ UNCHANGED lastCall
    \/ \E r \in RunIds : stopTaskFail(r) /\ UNCHANGED lastCall

StreamStep ==
    \/ \E id \in eventSources, e \in ControlEvents :
          /\ Len(rawEvents) < MaxEvents
          /\ onmessage(id, e)
          /\ UNCHANGED lastCall
    \/ \E id \in eventSources : onerror(id) /\ UNCHANGED lastCall

\* The whole controller, with one message of each kind on the stream.
Next == UserStep \/ ResponseStep \/ StreamStep

Spec == Init /\ [][Next]_allVars

\* The whole controller, with the messages that matter to the life of a run.
LiveStreamStep ==
    \/ \E id \in eventSources, e \in LiveEvents :
          /\ Len(rawEvents) < MaxLiveEvents
          /\ onmessage(id, e)
          /\ UNCHANGED lastCall
    \/ \E id \in eventSources : onerror(id) /\ UNCHANGED lastCall

LiveNext == UserStep \/ ResponseStep \/ LiveStreamStep

\* The stream of a run ends: task.finish, task.error or a transport error.
StreamEnds ==
    \E id \in eventSources :
        \/ onerror(id)
        \/ \E e \in {PlainEvent(T_TaskFinish, 1), TaskErrorEvent(1)} :
              /\ Len(rawEvents) < MaxLiveEvents
              /\ onmessage(id, e)

\* The assumptions of the liveness claim: a task-creation request in flight
\* is eventually answered (the fetch resolves or rejects), and an open stream
\* eventually ends.
SpecLive ==
    /\ Init /\ [][LiveNext]_allVars
    /\ WF_vars(startTaskOk \/ startTaskFail)
    /\ WF_vars(StreamEnds)

\* A session whose requests succeed, with every kind of message on the stream:
\* the specification of the reconciliation claims.
OpenStep ==
    \/ createSession(ValidRepoUrl) /\ UNCHANGED lastCall
    \/ createSessionOk(FALSE) /\ UNCHANGED lastCall
    \/ startTask(ValidQuery) /\ UNCHANGED lastCall
    \/ startTaskOk /\ UNCHANGED lastCall

PairNext ==
    \/ OpenStep
    \/ \E id \in eventSources, e \in StreamEvents :
          /\ Len(rawEvents) < MaxPairEvents
          /\ onmessage(id, e)
          /\ UNCHANGED lastCall

SpecPair == Init /\ [][PairNext]_allVars

\* A session whose requests succeed and whose streams deliver the messages of
\* the end-to-end scenario.
E2ENext ==
    \/ OpenStep
    \/ \E id \in eventSources, e \in E2EEvents :
          /\ Len(rawEvents) < MaxE2EEvents
          /\ onmessage(id, e)
          /\ UNCHANGED lastCall
    \/ \E id \in eventSources : onerror(id) /\ UNCHANGED lastCall

SpecE2E == Init /\ [][E2ENext]_allVars

\* A session whose requests succeed, with the messages that decide the keys,
\* the order and the content of the cache: the specification of the claims
\* about the cache as a whole.
CacheEvents ==
    {PlainEvent(t, 1) : t \in {T_Thought, T_TaskFinish, T_SetupRepoEnd, T_RepoClone}}
    \cup {ToolStartEvent(n, ts) : n \in ToolNames, ts \in Timestamps}
    \cup {ToolEndEvent(n, 1, ok) : n \in ToolNames, ok \in BOOLEAN}

CacheNext ==
    \/ OpenStep
    \/ \E id \in eventSources, e \in CacheEvents :
          /\ Len(rawEvents) < MaxCacheEvents
          /\ onmessage(id, e)
          /\ UNCHANGED lastCall

SpecCache == Init /\ [][CacheNext]_allVars

\* The whole controller with the history of calls: every step records the
\* handler it ran, so that a call that changes nothing is a step of its own.
CallEvents ==
    {PlainEvent(t, 1) : t \in {T_Keepalive, T_Thought, T_TaskEnd, T_TaskFinish}}
    \cup {TaskErrorEvent(1)}

ControlNext ==
    \/ \E u \in RepoUrls : createSession(u) /\ lastCall' = Call("createSession", u)
    \/ \E q \in Queries : startTask(q) /\ lastCall' = Call("startTask", q)
    \/ stopTask /\ lastCall' = Call("stopTask", <<>>)
    \/ \E f \in BOOLEAN : createSessionOk(f) /\ lastCall' = Call("createSessionOk", <<>>)
    \/ createSessionFail /\ lastCall' = Call("createSessionFail", <<>>)
    \/ startTaskOk /\ lastCall' = Call("startTaskOk", <<>>)
    \/ startTaskFail /\ lastCall' = Call("startTaskFail", <<>>)
    \/ \E r \in RunIds : stopTaskOk(r) /\ lastCall' = Call("stopTaskOk", <<r>>)
    \/ \E r \in RunIds : stopTaskFail(r) /\ lastCall' = Call("stopTaskFail", <<r>>)
    \/ \E id \in eventSources, e \in CallEvents :
          /\ Len(rawEvents) < MaxCallEvents
          /\ onmessage(id, e)
          /\ lastCall' = Call("onmessage", e.type)
    \/ \E id \in eventSources : onerror(id) /\ lastCall' = Call("onerror", <<>>)

SpecControl == Init /\ [][ControlNext]_allVars

\* ------------------------------------------------------- claim vocabulary
\* What a consumer reads of a record: everything but the object identity.
Shown(rec) == [key |-> rec.key, displayType |-> rec.displayType, status |-> rec.status,
               toolName |-> rec.toolName, output |-> rec.output, error |-> rec.error]
ViewModel(cache) == [i \in 1..Len(cache) |-> Shown(cache[i])]

\* This step is the delivery of one message that entered the Event Store.
Appended == Len(rawEvents') = Len(rawEvents) + 1 /\ SubSeq(rawEvents', 1, Len(rawEvents)) = rawEvents
NewEvent == rawEvents'[Len(rawEvents')]

ToolEventIndexes(raw, name) ==
    {i \in 1..Len(raw) : raw[i].type \in {T_ToolStart, T_ToolEnd} /\ raw[i].tool_name = name}
MaxOf(S) == CHOOSE m \in S : \A x \in S : x <= m
\* The latest tool-call message for name in raw is a start.
LastIsStart(raw, name) ==
    /\ ToolEventIndexes(raw, name) # {}
    /\ raw[MaxOf(ToolEventIndexes(raw, name))].type = T_ToolStart
LastStart(raw, name) == raw[MaxOf(ToolEventIndexes(raw, name))]

RecordsWithKey(cache, key) == {i \in 1..Len(cache) : cache[i].key = key}

\* ---------------------------------------------------------------- claims

\* C1: when a successful llm.tool_call.end for tool T is delivered and the
\* latest earlier tool-call message for T is a start, then after the step the
\* cache holds exactly one record under that start's key, a TOOL_CALL with
\* status completed and the end's response_preview as output, and the step
\* added no record.
C1_PairingCorrect ==
    [][ (Appended /\ NewEvent.type = T_ToolEnd /\ NewEvent.was_successful
         /\ LastIsStart(rawEvents, NewEvent.tool_name))
        => LET key == ToolKey(LastStart(rawEvents, NewEvent.tool_name))
           IN  /\ Cardinality(RecordsWithKey(eventCache', key)) = 1
               /\ CacheGet(eventCache', key).displayType = "TOOL_CALL"
               /\ CacheGet(eventCache', key).toolName = NewEvent.tool_name
               /\ CacheGet(eventCache', key).status = "completed"
               /\ CacheGet(eventCache', key).output = NewEvent.response_preview
               /\ CacheGet(eventCache', key).error = Undefined
               /\ Len(eventCache') = Len(eventCache) ]_vars

\* C1 witness: write_file started, a thought, write_file ended successfully.
C1_Witness ==
    /\ Len(rawEvents) = 3
    /\ rawEvents[1] = ToolStartEvent("write_file", 2)
    /\ rawEvents[2].type = T_Thought
    /\ rawEvents[3] = ToolEndEvent("write_file", 1, TRUE)
    /\ Len(eventCache) = 2
    /\ eventCache[1].key = <<"tool", "write_file", 2>>
    /\ eventCache[1].status = "completed"
    /\ eventCache[1].output = <<"preview", 1>>

\* C2: a TOOL_CALL status stored under a key never leaves completed or error.
C2_StatusNeverReverts ==
    [][ \A i \in 1..Len(eventCache) :
          (eventCache[i].displayType = "TOOL_CALL"
           /\ eventCache[i].status \in {"completed", "error"}
           /\ CacheHas(eventCache', eventCache[i].key))
          => CacheGet(eventCache', eventCache[i].key).status = eventCache[i].status ]_vars

\* C3: a reconciliation pass keeps the record object already stored under a key.
C3_SameObjectKept ==
    [][ Appended =>
          \A i \in 1..Len(eventCache) :
             /\ Len(eventCache') >= i
             /\ eventCache'[i].key = eventCache[i].key
             /\ eventCache'[i].obj = eventCache[i].obj ]_vars

\* C4: an llm.tool_call.end delivered while the correlator has no entry for its
\* tool name leaves the view-model list unchanged.
C4_OrphanEndNoop ==
    [][ (Appended /\ NewEvent.type = T_ToolEnd
         /\ runningTools[NewEvent.tool_name] = Undefined)
        => ViewModel(eventCache') = ViewModel(eventCache) ]_vars

\* C5: an accepted startTask leaves the Event Store, the View-Model Cache and
\* the Tool-Call Correlator empty: while the task-creation request of a run is
\* in flight, before any event of the run, all three are empty.
C5_ClearedAtRunStart ==
    taskReq # Null =>
        (rawEvents = <<>> /\ eventCache = <<>> /\ runningTools = EmptyTools)

\* The messages the latest stream has put into the Event Store.
RunEvents == SubSeq(rawEvents, runBase + 1, Len(rawEvents))
IsScenario(run) ==
    /\ Len(run) = 4
    /\ run[1].type = T_TaskStart
    /\ run[2].type = T_ToolStart
    /\ run[3].type = T_ToolEnd /\ run[3].was_successful /\ run[3].tool_name = run[2].tool_name
    /\ run[4].type = T_TaskFinish
NoRunInProgress == runs > 0 /\ taskReq = Null /\ eventSources = {}

\* C6: when a run whose stream delivered exactly task.start, tool start X,
\* successful tool end X, task.finish is over, the view-model list is
\* TASK_LIFECYCLE (start), TOOL_CALL (completed), TASK_LIFECYCLE (finish) and
\* the task state is idle.
C6_EndToEnd ==
    (NoRunInProgress /\ IsScenario(RunEvents)) =>
        /\ Len(eventCache) = 3
        /\ eventCache[1].displayType = "TASK_LIFECYCLE" /\ eventCache[1].raw.type = T_TaskStart
        /\ eventCache[2].displayType = "TOOL_CALL" /\ eventCache[2].status = "completed"
        /\ eventCache[3].displayType = "TASK_LIFECYCLE" /\ eventCache[3].raw.type = T_TaskFinish
        /\ ~isTaskRunning /\ currentTaskId = Null /\ ~isStopping

\* The step is an accepted stopTask.
StopAccepted == ~isStopping /\ isStopping' /\ stopReqs' # stopReqs
\* The step takes the controller from running or stopping to idle.
BecomesIdle == isTaskRunning /\ ~isTaskRunning'
\* The step is a terminal message or a transport error of an open stream.
StreamClosed == eventSources' # eventSources /\ eventSources' \subseteq eventSources
TerminalDelivered == Appended /\ NewEvent.type \in {T_TaskFinish, T_TaskError}

C8_TerminalEventEndsRun ==
    [][ TerminalDelivered =>
          /\ isTaskRunning
          /\ StreamClosed /\ eventSources' = eventSources \ {currentTaskId}
          /\ ~isTaskRunning' /\ currentTaskId' = Null /\ ~isStopping'
          /\ LET key == EventKey(Len(filteredRawEvents(rawEvents)), NewEvent)
             IN  /\ CacheHas(eventCache', key)
                 /\ CacheGet(eventCache', key).raw = NewEvent
                 /\ CacheGet(eventCache', key).displayType =
                       (IF NewEvent.type = T_TaskError THEN "ERROR" ELSE "TASK_LIFECYCLE") ]_vars

\* C8 witness: task.error ended a run that was stopping.
C8_Witness ==
    /\ ~isTaskRunning /\ ~isStopping /\ currentTaskId = Null /\ eventSources = {}
    /\ stopReqs[1] = 1 /\ runs = 1
    /\ rawEvents # <<>> /\ rawEvents[Len(rawEvents)].type = T_TaskError
    /\ eventCache[Len(eventCache)].displayType = "ERROR"

\* C9: a transport error of the stream (a stream closes and nothing is
\* appended) leaves the controller idle with task id and stopping flag
\* cleared, as task.error does, and leaves Event Store and cache unchanged.
C9_StreamErrorEndsRun ==
    [][ (StreamClosed /\ ~Appended) =>
          /\ isTaskRunning
          /\ eventSources' = eventSources \ {currentTaskId}
          /\ ~isTaskRunning' /\ currentTaskId' = Null /\ ~isStopping'
          /\ UNCHANGED <<rawEvents, eventCache, runningTools>>
          /\ status'.type = "error" ]_vars

\* C9 witness: the stream of a stopping run failed after one thought.
C9_Witness ==
    /\ ~isTaskRunning /\ ~isStopping /\ currentTaskId = Null /\ eventSources = {}
    /\ status = Toast("Stream connection lost.", "error")
    /\ stopReqs[1] = 1
    /\ Len(rawEvents) = 1 /\ rawEvents[1].type = T_Thought /\ Len(eventCache) = 1

\* C10: under SpecLive every run that is running (or stopping) is eventually
\* idle again.
C10_RunEventuallyIdle == isTaskRunning ~> ~isTaskRunning

\* C10 witness: a run whose stream delivered an orphan end and then failed is
\* idle again.
C10_Witness ==
    /\ ~isTaskRunning /\ currentTaskId = Null /\ eventSources = {} /\ taskReq = Null
    /\ runs = 1 /\ stopReqs[1] = 0
    /\ status = Toast("Stream connection lost.", "error")
    /\ Len(rawEvents) = 1 /\ rawEvents[1] = ToolEndEvent("read_file", 1, TRUE)

\* C11: a failed session-creation request leaves the session state NO_SESSION
\* with no request in flight and the failure shown, and in every state with
\* session state NO_SESSION or CREATING_SESSION sessionId is absent.
C11_SessionRollback ==
    /\ sessionState \in {"NO_SESSION", "CREATING_SESSION"} => sessionId = Null
    /\ sessionReq => sessionState = "CREATING_SESSION"
    /\ lastCall.op = "createSessionFail" =>
          /\ sessionState = "NO_SESSION" /\ sessionId = Null /\ ~sessionReq
          /\ status = Toast("Session setup failed", "error")

\* C11 witness: the session-creation request has just failed.
C11_Witness ==
    /\ lastCall.op = "createSessionFail"
    /\ sessionState = "NO_SESSION" /\ sessionId = Null /\ repoInfo = Null

\* C12: the session state changes only by NO_SESSION -> CREATING_SESSION (an
\* accepted createSession), CREATING_SESSION -> SESSION_ACTIVE (the request
\* succeeds) and CREATING_SESSION -> NO_SESSION (the request fails), and no
\* step leaves SESSION_ACTIVE.
C12_SessionTransitions ==
    [][ /\ sessionState' # sessionState =>
              \/ /\ sessionState = "NO_SESSION" /\ sessionState' = "CREATING_SESSION"
                 /\ lastCall'.op = "createSession"
              \/ /\ sessionState = "CREATING_SESSION" /\ sessionState' = "SESSION_ACTIVE"
                 /\ lastCall'.op = "createSessionOk"
              \/ /\ sessionState = "CREATING_SESSION" /\ sessionState' = "NO_SESSION"
                 /\ lastCall'.op = "createSessionFail"
        /\ sessionState = "SESSION_ACTIVE" => sessionState' = "SESSION_ACTIVE" ]_allVars

\* C12 witness: the session is still active after two runs, the second of
\* which lost its stream while stopping.
C12_Witness ==
    /\ sessionState = "SESSION_ACTIVE" /\ sessionId # Null
    /\ runs = 2 /\ ~isTaskRunning /\ stopReqs[2] = 1
    /\ lastCall.op = "onerror"

\* C13: a stream.keepalive message delivered on an open stream changes nothing
\* (Event Store, cache, correlator, task state, stream, notification), and no
\* raw event or cache record of type stream.keepalive ever exists.
C13_KeepaliveDiscarded ==
    [][ /\ (lastCall'.op = "onmessage" /\ lastCall'.arg = T_Keepalive) => UNCHANGED vars
        /\ \A i \in 1..Len(rawEvents') : rawEvents'[i].type # T_Keepalive
        /\ \A i \in 1..Len(eventCache') : eventCache'[i].raw.type # T_Keepalive ]_allVars

\* C13 witness: a keepalive has just been delivered to a run that had shown
\* one thought.
C13_Witness ==
    /\ lastCall = Call("onmessage", T_Keepalive)
    /\ isTaskRunning /\ currentTaskId \in eventSources
    /\ Len(rawEvents) = 1 /\ rawEvents[1].type = T_Thought
    /\ Len(eventCache) = 1

\* One reconciliation of raw that starts from an empty cache and an empty
\* correlator; n tells the replays (and the objects they build) apart.
Replay(raw, n) ==
    ReconcileFrom([cache |-> <<>>, tools |-> EmptyTools], filteredRawEvents(raw), 1, n)

Rerun(cache, tools, raw) == processedEvents(cache, tools, raw)

\* C15: after every reconciliation pass, running the pass again over the
\* unchanged Event Store on top of the cache and correlator it produced gives
\* the same records (keys, order, kind, status, output, error) and the same
\* correlator.
C15_RerunIsIdempotent ==
    [][ Appended =>
          /\ ViewModel(Rerun(eventCache', runningTools', rawEvents').cache) = ViewModel(eventCache')
          /\ Rerun(eventCache', runningTools', rawEvents').tools = runningTools' ]_allVars

\* C15 witness: a pass left a completed call, a running call and one
\* correlator entry, and the pass run again leaves the same.
C15_Witness ==
    /\ rawEvents = <<ToolStartEvent("read_file", 1), ToolEndEvent("read_file", 1, TRUE),
                     ToolStartEvent("write_file", 2)>>
    /\ Len(eventCache) = 2
    /\ eventCache[1].status = "completed" /\ eventCache[2].status = "running"
    /\ runningTools["write_file"] = <<"tool", "write_file", 2>>
    /\ runningTools["read_file"] = Undefined
    /\ ViewModel(Rerun(eventCache, runningTools, rawEvents).cache) = ViewModel(eventCache)

\* The event types whose case builds a new display record.
CreatingTypes == {T_TaskStart, T_TaskFinish, T_TaskError, T_LoopStart, T_Thought, T_ToolStart}
\* The positions of the creating events in the filtered Event Store.
CreatingIndexes(filtered) == {i \in 1..Len(filtered) : filtered[i].type \in CreatingTypes}
\* The key the pass stores the record of the creating event at position i under.
CreatedKey(filtered, i) ==
    IF filtered[i].type = T_ToolStart THEN ToolKey(filtered[i])
    ELSE EventKey(i - 1, filtered[i])

\* C16: any two creating events at different positions of the Event Store get
\* different keys, two llm.tool_call.start events with the same tool name
\* included, and the cache holds as many records as there are creating events.
C16_KeysNeverCollide ==
    LET filtered == filteredRawEvents(rawEvents)
    IN  /\ \A i, j \in CreatingIndexes(filtered) :
              i # j => CreatedKey(filtered, i) # CreatedKey(filtered, j)
        /\ Len(eventCache) = Cardinality(CreatingIndexes(filtered))

MinOf(S) == CHOOSE m \in S : \A x \in S : m <= x
\* The positions of the filtered Event Store whose creating event has this key.
SightsOf(filtered, key) ==
    {i \in CreatingIndexes(filtered) : CreatedKey(filtered, i) = key}
\* The position at which the creating event of this key was first seen.
FirstSight(filtered, key) == MinOf(SightsOf(filtered, key))

\* C17: every record of the cache has a creating event in the Event Store, and
\* the records are in the order in which their creating events were first
\* seen: of two records, the one first seen at the earlier position comes
\* first.  The position of a record therefore depends on nothing but the
\* place of its creating event: no later end and no later pass moves it.
C17_OrderedByFirstSight ==
    LET filtered == filteredRawEvents(rawEvents)
    IN  /\ \A k \in 1..Len(eventCache) : SightsOf(filtered, eventCache[k].key) # {}
        /\ \A k, l \in 1..Len(eventCache) :
              k < l => FirstSight(filtered, eventCache[k].key)
                         < FirstSight(filtered, eventCache[l].key)

\* C17 witness: a call started before a thought and ended after it, and
\* started once more after that, is still listed before the thought.
C17_Witness ==
    /\ rawEvents = <<ToolStartEvent("read_file", 1), PlainEvent(T_Thought, 1),
                     ToolEndEvent("read_file", 1, TRUE), ToolStartEvent("read_file", 2)>>
    /\ Len(eventCache) = 3
    /\ eventCache[1].key = <<"tool", "read_file", 1>> /\ eventCache[1].status = "completed"
    /\ eventCache[2].displayType = "LLM_THOUGHT"
    /\ eventCache[3].key = <<"tool", "read_file", 2>>

\* C18: a startTask call made with an empty (or blank) query, without an
\* active session or while a task is running changes nothing: task state,
\* task id, Event Store, cache, correlator, streams and notification stay as
\* they are and no task-creation request is issued; a task-creation request
\* is issued only by a startTask call with a non-empty query, an active
\* session and no task running.
C18_StartTaskRejected ==
    [][ /\ (/\ lastCall'.op = "startTask"
            /\ \/ Trim(lastCall'.arg) = <<>>
               \/ sessionState # "SESSION_ACTIVE"
               \/ isTaskRunning)
           => UNCHANGED vars
        /\ (taskReq' # taskReq /\ taskReq' # Null)
           => /\ lastCall'.op = "startTask" /\ Trim(lastCall'.arg) # <<>>
              /\ sessionState = "SESSION_ACTIVE" /\ ~isTaskRunning ]_allVars

\* C18 witness: startTask has just been called with a query while the run is
\* streaming; the run and its one event are as they were.
C18_Witness ==
    /\ lastCall = Call("startTask", ValidQuery)
    /\ isTaskRunning /\ currentTaskId = TaskId(1) /\ currentTaskId \in eventSources
    /\ runs = 1 /\ taskReq = Null
    /\ Len(rawEvents) = 1 /\ Len(eventCache) = 1

\* The step issues a stop request.
StopIssued == \E r \in RunIds : stopReqs'[r] > stopReqs[r]

\* C19: a stopTask call made while no task is running or while a stop is in
\* progress changes nothing and issues no request; a stop request is issued
\* only by a stopTask call made while a task is running and no stop is in
\* progress; and no task run ever has more than one stop request in flight.
C19_StopTaskRejected ==
    [][ /\ (lastCall'.op = "stopTask" /\ (~isTaskRunning \/ isStopping)) => UNCHANGED vars
        /\ StopIssued => (lastCall'.op = "stopTask" /\ isTaskRunning /\ ~isStopping)
        /\ \A r \in RunIds : stopReqs'[r] <= 1 ]_allVars

\* C20: when the stop request of the current run fails while the run is
\* stopping, the run is running and not stopping afterwards, the failure is
\* shown, task id, stream, Event Store, cache and correlator are unchanged,
\* and a stopTask call that follows is accepted: it sets stopping and issues
\* a stop request.
C20_StopFailureReverts ==
    [][ /\ \A r \in RunIds :
              (/\ lastCall' = Call("stopTaskFail", <<r>>) /\ stopReqs'[r] < stopReqs[r]
               /\ isStopping /\ currentTaskId = TaskId(r))
              => /\ isTaskRunning' /\ ~isStopping'
                 /\ status' = Toast("Stop request failed", "error")
                 /\ UNCHANGED <<isTaskRunning, currentTaskId, eventSources, rawEvents,
                                eventCache, runningTools>>
        /\ (/\ lastCall.op = "stopTaskFail" /\ lastCall'.op = "stopTask"
            /\ isTaskRunning /\ currentTaskId # Null /\ ~isStopping)
           => (StopIssued /\ isStopping' /\ isTaskRunning') ]_allVars

\* C20 witness: the stop request of the streaming run 1 has just failed; the
\* run is running, not stopping, with its stream open and its event kept.
C20_Witness ==
    /\ lastCall = Call("stopTaskFail", <<1>>)
    /\ runs = 1 /\ isTaskRunning /\ ~isStopping
    /\ currentTaskId = TaskId(1) /\ eventSources = {TaskId(1)}
    /\ stopReqs[1] = 0
    /\ Len(rawEvents) = 1 /\ Len(eventCache) = 1

\* The test createSession applies to the text of the repository field.
WellFormed(repoUrl) == Trim(repoUrl) # <<>> /\ Includes(repoUrl, "github.com")

\* C21: a createSession call whose repository URL is blank or does not
\* contain github.com leaves the session state NO_SESSION, issues no
\* session-creation request, changes neither the Event Store, the cache, the
\* correlator nor the task state, and shows the validation failure; a
\* session-creation request is issued only by a call with a well-formed URL.
C21_MalformedUrlRejected ==
    [][ /\ (lastCall'.op = "createSession" /\ ~WellFormed(lastCall'.arg))
           => /\ sessionState = "NO_SESSION" /\ sessionState' = "NO_SESSION"
              /\ ~sessionReq'
              /\ UNCHANGED <<sessionVars, taskVars, storeVars, taskReq, stopReqs,
                             eventSources, runs>>
              /\ status' = Toast("Please enter a valid GitHub repository URL", "error")
        /\ (sessionReq' /\ ~sessionReq)
           => (lastCall'.op = "createSession" /\ WellFormed(lastCall'.arg)) ]_allVars

\* C21 witness: createSession has just been called with a gitlab.com URL and
\* was rejected.
C21_Witness ==
    /\ lastCall = Call("createSession", <<"https://", "gitlab.com", "/o/r">>)
    /\ sessionState = "NO_SESSION" /\ sessionId = Null /\ ~sessionReq
    /\ status = Toast("Please enter a valid GitHub repository URL", "error")
    /\ rawEvents = <<>> /\ eventCache = <<>>

\* The task-creation requests in flight and the open event streams.
RunsInProgress == Cardinality(eventSources) + (IF taskReq # Null THEN 1 ELSE 0)

\* C22: after every step at most one task-creation request is in flight or
\* one event stream is open, it belongs to the latest run and the controller
\* is running; and a step that starts a run is a startTask call made while the
\* controller is idle, with no request in flight and no stream open.
C22_OneRunAtATime ==
    [][ /\ RunsInProgress' <= 1
        /\ RunsInProgress' = 1 => isTaskRunning'
        /\ taskReq' # Null => taskReq' = TaskId(runs')
        /\ eventSources' \subseteq {TaskId(runs')} /\ eventSources' \subseteq {currentTaskId'}
        /\ runs' # runs =>
              /\ lastCall'.op = "startTask"
              /\ ~isTaskRunning /\ currentTaskId = Null /\ ~isStopping
              /\ taskReq = Null /\ eventSources = {} ]_allVars

\* C22 witness: the second run of a session is streaming; the stream of the
\* first run is closed.
C22_Witness ==
    /\ runs = 2 /\ isTaskRunning /\ currentTaskId = TaskId(2)
    /\ eventSources = {TaskId(2)} /\ taskReq = Null
    /\ lastCall.op = "onmessage" /\ Len(rawEvents) = 2

\* The Event Store and the cache keep what they hold: the Event Store is a
\* prefix of its next value, and every record stays under its key, at its
\* position, for its raw event.
StoreKept ==
    /\ Len(rawEvents') >= Len(rawEvents)
    /\ SubSeq(rawEvents', 1, Len(rawEvents)) = rawEvents
    /\ Len(eventCache') >= Len(eventCache)
    /\ \A i \in 1..Len(eventCache) :
          /\ eventCache'[i].key = eventCache[i].key
          /\ eventCache'[i].raw = eventCache[i].raw

\* C23: a step taken while the controller is running or stopping keeps the
\* Event Store and the records of the cache, and a step that does not keep
\* them is taken with no run in progress: no task running, no task-creation
\* request in flight and no stream open.
C23_NoDiscardWhileRunning ==
    [][ /\ (isTaskRunning \/ isStopping) => StoreKept
        /\ ~StoreKept =>
              (~isTaskRunning /\ ~isStopping /\ taskReq = Null /\ eventSources = {}) ]_allVars

\* C23 witness: the stop request of a run has just been accepted; the run is
\* still stopping and its two events and two records are kept.
C23_Witness ==
    /\ lastCall.op = "stopTaskOk"
    /\ isTaskRunning /\ isStopping /\ currentTaskId \in eventSources
    /\ Len(rawEvents) = 2 /\ Len(eventCache) = 2

StartIndexes(raw, name) ==
    {i \in 1..Len(raw) : raw[i].type = T_ToolStart /\ raw[i].tool_name = name}
EndIndexes(raw, name) ==
    {i \in 1..Len(raw) : raw[i].type = T_ToolEnd /\ raw[i].tool_name = name}
\* The status an end event gives the record it resolves.
Resolved(event) == IF event.was_successful THEN "completed" ELSE "error"

\* C24: when a second llm.tool_call.start for a tool name is reconciled and
\* the Event Store holds no end for that name, the correlator entry of the
\* name is the key of the later start; when the first end for the name is
\* then reconciled, the record of the latest start is resolved by it and the
\* record of every earlier start of that name is still running.
C24_LastStartedWins ==
    [][ /\ (/\ Appended /\ NewEvent.type = T_ToolStart
            /\ StartIndexes(rawEvents, NewEvent.tool_name) # {}
            /\ EndIndexes(rawEvents, NewEvent.tool_name) = {})
           => runningTools'[NewEvent.tool_name] = ToolKey(NewEvent)
        /\ (/\ Appended /\ NewEvent.type = T_ToolEnd
            /\ Cardinality(StartIndexes(rawEvents, NewEvent.tool_name)) >= 2
            /\ EndIndexes(rawEvents, NewEvent.tool_name) = {})
           => LET starts == StartIndexes(rawEvents, NewEvent.tool_name)
                  later == MaxOf(starts)
              IN  /\ CacheGet(eventCache', ToolKey(rawEvents[later])).status = Resolved(NewEvent)
                  /\ \A i \in starts \ {later} :
                        CacheGet(eventCache', ToolKey(rawEvents[i])).status = "running" ]_allVars

\* The tool names other than name whose latest tool-call event is a start.
OtherOutstanding(raw, name) == {n \in ToolNames \ {name} : LastIsStart(raw, n)}

\* C25: when an llm.tool_call.end for tool A is reconciled while the calls of
\* A and of another tool B are both outstanding (the latest tool-call event of
\* each is a start), the record of A's start is resolved with the end's
\* output or error, every other record is unchanged, B's record is still
\* running and B's correlator entry still refers to it; this holds for
\* either order of the two ends.
C25_ConcurrentNamesPair ==
    [][ (/\ Appended /\ NewEvent.type = T_ToolEnd
         /\ LastIsStart(rawEvents, NewEvent.tool_name)
         /\ OtherOutstanding(rawEvents, NewEvent.tool_name) # {})
        => LET keyA == ToolKey(LastStart(rawEvents, NewEvent.tool_name))
           IN  /\ CacheGet(eventCache', keyA).status = Resolved(NewEvent)
               /\ CacheGet(eventCache', keyA).output = NewEvent.response_preview
               /\ CacheGet(eventCache', keyA).error = NewEvent.error
               /\ Len(eventCache') = Len(eventCache)
               /\ \A i \in 1..Len(eventCache) :
                     eventCache[i].key # keyA => Shown(eventCache'[i]) = Shown(eventCache[i])
               /\ \A b \in OtherOutstanding(rawEvents, NewEvent.tool_name) :
                     /\ runningTools'[b] = ToolKey(LastStart(rawEvents, b))
                     /\ CacheGet(eventCache', runningTools'[b]).status = "running"
                     /\ CacheGet(eventCache', runningTools'[b]).toolName = b ]_allVars

\* C25 witness: read_file and write_file were started in that order at the
\* same timestamp; write_file ended first, successfully, then read_file failed.
C25_Witness ==
    /\ rawEvents = <<ToolStartEvent("read_file", 1), ToolStartEvent("write_file", 1),
                     ToolEndEvent("write_file", 1, TRUE), ToolEndEvent("read_file", 1, FALSE)>>
    /\ Len(eventCache) = 2
    /\ eventCache[1].toolName = "read_file" /\ eventCache[1].status = "error"
    /\ eventCache[1].error = <<"error", 1>> /\ eventCache[1].output = Undefined
    /\ eventCache[2].toolName = "write_file" /\ eventCache[2].status = "completed"
    /\ eventCache[2].output = <<"preview", 1>>
    /\ runningTools = EmptyTools

\* The positions whose record reads differently after the step.
ChangedRecords ==
    {i \in 1..Len(eventCache) : Shown(eventCache'[i]) # Shown(eventCache[i])}

\* C26: the reconciliation of a delivered llm.tool_call.end leaves the number,
\* the keys and the order of the records as they are.  It changes a record
\* exactly when the latest earlier tool-call event of its tool name is a
\* start; it then changes one record only, a running TOOL_CALL of that tool
\* name, whose status, output and error become those of the end while its
\* key, kind, tool name and raw event stay; afterwards the correlator has no
\* entry for the tool name.
C26_EndKeepsKeys ==
    [][ (Appended /\ NewEvent.type = T_ToolEnd)
        => /\ Len(eventCache') = Len(eventCache)
           /\ \A i \in 1..Len(eventCache) : eventCache'[i].key = eventCache[i].key
           /\ Cardinality(ChangedRecords) <= 1
           /\ (ChangedRecords # {}) <=> LastIsStart(rawEvents, NewEvent.tool_name)
           /\ \A i \in ChangedRecords :
                 /\ eventCache[i].displayType = "TOOL_CALL"
                 /\ eventCache[i].toolName = NewEvent.tool_name
                 /\ eventCache[i].status = "running"
                 /\ eventCache'[i].status = Resolved(NewEvent)
                 /\ eventCache'[i].output = NewEvent.response_preview
                 /\ eventCache'[i].error = NewEvent.error
                 /\ eventCache'[i].displayType = "TOOL_CALL"
                 /\ eventCache'[i].toolName = eventCache[i].toolName
                 /\ eventCache'[i].raw = eventCache[i].raw
           /\ runningTools'[NewEvent.tool_name] = Undefined ]_allVars

\* C26 witness: after a thought and a start of write_file, an end for
\* read_file matched nothing and an end for write_file failed the call; the
\* cache holds the same two keys in the same order.
C26_Witness ==
    /\ rawEvents = <<PlainEvent(T_Thought, 1), ToolStartEvent("write_file", 2),
                     ToolEndEvent("read_file", 1, TRUE), ToolEndEvent("write_file", 1, FALSE)>>
    /\ Len(eventCache) = 2
    /\ eventCache[1].key = <<"event", 0, 1>>
    /\ eventCache[2].key = <<"tool", "write_file", 2>>
    /\ eventCache[2].status = "error" /\ eventCache[2].error = <<"error", 1>>
    /\ runningTools = EmptyTools

\* The event belongs to the repo. or the setup. namespace.
Excluded(event) == event.type[1] \in {"repo", "setup"}
\* The Event Store as it would be had no repo. or setup. event been delivered.
WithoutExcluded(raw) == SelectSeq(raw, LAMBDA e : ~Excluded(e))

\* C27: the delivery of a repo. or setup. event leaves the view-model list
\* unchanged; no record of the cache is built from such an event; and every
\* record with a positional key has the key it would have had no repo. or
\* setup. event been in the Event Store: event-<i>-<timestamp> for the event
\* at position i (from 0) among the other events.
C27_SetupEventsInvisible ==
    [][ /\ (Appended /\ Excluded(NewEvent)) => ViewModel(eventCache') = ViewModel(eventCache)
        /\ \A k \in 1..Len(eventCache') :
              LET rec == eventCache'[k]
                  others == WithoutExcluded(rawEvents')
              IN  /\ ~Excluded(rec.raw)
                  /\ rec.key[1] = "event" =>
                        /\ rec.key[2] < Len(others)
                        /\ others[rec.key[2] + 1] = rec.raw
                        /\ rec.key[3] = rec.raw.timestamp ]_allVars

\* C27 witness: a setup. event, a thought, a repo. event and a tool start
\* were delivered; the cache holds the thought under event-0-1 and the call.
C27_Witness ==
    /\ rawEvents = <<PlainEvent(T_SetupRepoEnd, 1), PlainEvent(T_Thought, 1),
                     PlainEvent(T_RepoClone, 1), ToolStartEvent("read_file", 2)>>
    /\ Len(eventCache) = 2
    /\ eventCache[1].key = <<"event", 0, 1>> /\ eventCache[1].displayType = "LLM_THOUGHT"
    /\ eventCache[2].key = <<"tool", "read_file", 2>>

\* The event types the pass has a case for.
RecognizedTypes == CreatingTypes \cup {T_ToolEnd}

\* C28: the delivery of an event whose type the pass has no case for appends
\* it to the Event Store and changes neither the view-model list nor the
\* correlator nor the task state, the stream or the notification.
C28_UnrecognizedIgnored ==
    [][ (Appended /\ NewEvent.type \notin RecognizedTypes)
        => /\ ViewModel(eventCache') = ViewModel(eventCache)
           /\ runningTools' = runningTools
           /\ UNCHANGED <<sessionVars, taskVars, eventSources, status, taskReq>> ]_allVars

\* C29: when the task-creation request fails the controller goes from running
\* to idle: no task id is recorded, no stream is open, no request is in
\* flight, the failure is shown and the Event Store, the cache and the
\* correlator are as they were; a startTask call with a query that follows
\* is accepted: it issues a task-creation request and the controller is
\* running again.
C29_StartFailureReverts ==
    [][ /\ lastCall'.op = "startTaskFail"
           => /\ isTaskRunning /\ currentTaskId = Null /\ taskReq # Null
              /\ ~isTaskRunning' /\ currentTaskId' = Null /\ ~isStopping'
              /\ taskReq' = Null /\ eventSources' = {} /\ eventSources = {}
              /\ status' = Toast("Failed to start task", "error")
              /\ UNCHANGED <<sessionVars, storeVars, runs>>
        /\ (/\ lastCall.op = "startTaskFail" /\ lastCall'.op = "startTask"
            /\ Trim(lastCall'.arg) # <<>>)
           => (isTaskRunning' /\ taskReq' = TaskId(runs + 1) /\ runs' = runs + 1) ]_allVars

\* C29 witness: the task-creation request of the second run has just failed;
\* the controller is idle and the events of the first run are kept.
C29_Witness ==
    /\ lastCall.op = "startTaskFail"
    /\ runs = 2 /\ ~isTaskRunning /\ currentTaskId = Null /\ ~isStopping
    /\ taskReq = Null /\ eventSources = {}
    /\ status = Toast("Failed to start task", "error")
    /\ Len(rawEvents) = 1

\* C30: a startTask call with an empty (or blank) query and a createSession
\* call with a malformed repository URL each show an error notification in
\* the step of the call, issue no request and leave session state and task
\* state unchanged.
C30_ValidationReported ==
    [][ /\ (lastCall'.op = "startTask" /\ Trim(lastCall'.arg) = <<>>)
           => /\ status'.type = "error"
              /\ UNCHANGED <<sessionVars, taskVars, taskReq, runs>>
        /\ (lastCall'.op = "createSession" /\ ~WellFormed(lastCall'.arg))
           => /\ status'.type = "error"
              /\ UNCHANGED <<sessionVars, taskVars, taskReq, runs>> ]_allVars

\* C31: a session-creation request is in flight exactly while the session
\* state is CREATING_SESSION; no createSession call is made in that state (the
\* form that makes it is disabled), so a request is issued only while none is
\* in flight; and a step taken in that state other than the outcome of the
\* request leaves session state, request, Event Store, cache and correlator
\* as they are.
C31_OneCreationInFlight ==
    [][ /\ sessionReq <=> sessionState = "CREATING_SESSION"
        /\ lastCall'.op = "createSession" => (sessionState = "NO_SESSION" /\ ~sessionReq)
        /\ (sessionReq' /\ sessionState' = "CREATING_SESSION" /\ sessionState # "CREATING_SESSION")
              => (lastCall'.op = "createSession" /\ ~sessionReq)
        /\ (sessionState = "CREATING_SESSION"
            /\ lastCall'.op \notin {"createSessionOk", "createSessionFail"})
           => UNCHANGED <<sessionVars, storeVars, taskVars, taskReq>> ]_allVars

\* C31 witness: a createSession call has just been accepted; its request is in
\* flight, the form is disabled and nothing else has happened.
C31_Witness ==
    /\ lastCall = Call("createSession", ValidRepoUrl)
    /\ sessionState = "CREATING_SESSION" /\ sessionReq /\ sessionId = Null
    /\ status = Toast("Setting up repository environment...", "info")
    /\ rawEvents = <<>> /\ runs = 0

\* The delivered event is already in the Event Store, delivered by the same
\* run: same type, timestamp and data.
DuplicateDelivered == \E i \in (runBase + 1)..Len(rawEvents) : rawEvents[i] = NewEvent

\* C32: when a creating event is delivered that the same run has already
\* delivered (same type, timestamp and data), the pass skips it: the
\* view-model list is as it was, with one record for the event, unchanged in
\* status, output and error.
C32_DuplicateSkipped ==
    [][ (Appended /\ NewEvent.type \in CreatingTypes /\ DuplicateDelivered)
        => ViewModel(eventCache') = ViewModel(eventCache) ]_allVars

\* One pass over the complete Event Store from an empty cache and an empty
\* correlator.
Batch(raw) == Replay(raw, 0)

\* C33: after every delivery, the cache and the correlator that the passes
\* run after each delivery have built are those of one pass over the complete
\* Event Store from an empty cache and correlator: same keys, order, kind,
\* status, output and error, same correlator entries.
C33_IncrementalIsBatch ==
    [][ Appended =>
          /\ ViewModel(eventCache') = ViewModel(Batch(rawEvents').cache)
          /\ runningTools' = Batch(rawEvents').tools ]_allVars

\* C33 witness: an end with no start, two starts of read_file and a failing
\* end were delivered one at a time; the cache holds the running first call
\* and the failed second call, as one pass from empty does.
C33_Witness ==
    /\ rawEvents = <<ToolEndEvent("read_file", 1, TRUE), ToolStartEvent("read_file", 1),
                     ToolStartEvent("read_file", 2), ToolEndEvent("read_file", 1, FALSE)>>
    /\ Len(eventCache) = 2
    /\ eventCache[1].status = "running" /\ eventCache[2].status = "error"
    /\ runningTools = EmptyTools
    /\ ViewModel(eventCache) = ViewModel(Batch(rawEvents).cache)
    /\ eventCache # Batch(rawEvents).cache

\* The step is the failure of the stop request that the current run issued.
OwnStopFailed ==
    /\ lastCall'.op = "stopTaskFail"
    /\ currentTaskId # Null /\ lastCall'.arg = <<currentTaskId[2]>>

\* C34: the outcome of a stop request touches the task state of the run that
\* issued it only: the failure of a stop request of a run that is not the
\* current one leaves task running, task id and stopping as they are, and a
\* stopping run leaves stopping only by a step that closes its stream (a
\* terminal event or a transport error) or by the failure of its own stop
\* request.
C34_StopOutcomeOwnRun ==
    [][ /\ (lastCall'.op = "stopTaskFail" /\ ~OwnStopFailed) => UNCHANGED taskVars
        /\ (isStopping /\ ~isStopping') => (StreamClosed \/ OwnStopFailed) ]_allVars

\* C35: a message is appended to the Event Store only by the onmessage of
\* the open stream of the current, running task; a stream is opened only by
\* the success of the task-creation request of the latest run, so a stream
\* that was closed is never open again; and while no stream is open the task
\* state changes only by startTask and the outcome of its request.
C35_ClosedStreamSilent ==
    [][ /\ Appended =>
              /\ lastCall'.op = "onmessage"
              /\ isTaskRunning /\ currentTaskId # Null /\ eventSources = {currentTaskId}
        /\ lastCall'.op \in {"onmessage", "onerror"} => eventSources = {currentTaskId}
        /\ \A id \in eventSources' \ eventSources :
              /\ lastCall'.op = "startTaskOk"
              /\ id = taskReq /\ id = TaskId(runs) /\ eventSources = {}
        /\ (eventSources = {} /\ taskVars' # taskVars)
              => lastCall'.op \in {"startTask", "startTaskOk", "startTaskFail"}
        /\ (eventSources = {} /\ rawEvents' # rawEvents)
              => (lastCall'.op = "createSession" /\ rawEvents' = <<>>) ]_allVars

\* C35 witness: the stream of run 1 was closed by task.finish, and the Event
\* Store grew again by a thought on the stream of run 2.
C35_Witness ==
    /\ rawEvents = <<PlainEvent(T_TaskFinish, 1), PlainEvent(T_Thought, 1)>>
    /\ runs = 2 /\ eventSources = {TaskId(2)} /\ currentTaskId = TaskId(2)
    /\ isTaskRunning /\ lastCall = Call("onmessage", T_Thought)

\* C36: in every state stopping implies running with a task id recorded, a
\* task id is recorded only while running, running implies an active session,
\* and an idle controller has no task id and is not stopping, whatever stop
\* responses arrive after the run has ended.
C36_TaskFlagsConsistent ==
    /\ isStopping => (isTaskRunning /\ currentTaskId # Null)
    /\ currentTaskId # Null => isTaskRunning
    /\ isTaskRunning => (sessionState = "SESSION_ACTIVE" /\ sessionId # Null)
    /\ ~isTaskRunning => (currentTaskId = Null /\ ~isStopping)

\* C36 witness: the stop request of run 1 has just failed after the run had
\* ended; the controller is idle, with no task id and not stopping.
C36_Witness ==
    /\ lastCall = Call("stopTaskFail", <<1>>)
    /\ runs = 1 /\ eventSources = {} /\ taskReq = Null
    /\ ~isTaskRunning /\ currentTaskId = Null /\ ~isStopping
    /\ sessionState = "SESSION_ACTIVE"

\* The Event Store holds ends and starts for name, every end before the
\* first start.
EndsBeforeStarts(raw, name) ==
    /\ StartIndexes(raw, name) # {} /\ EndIndexes(raw, name) # {}
    /\ MaxOf(EndIndexes(raw, name)) < MinOf(StartIndexes(raw, name))

\* C37: the delivery of an llm.tool_call.end for a tool name that has no
\* start in the Event Store changes no record and leaves the name without a
\* correlator entry; and after every delivery, for a tool name whose ends all
\* came before its first start, the record of every start of the name is
\* running with neither output nor error, and the correlator entry of the
\* name is the key of its latest start.
C37_EarlyEndIgnored ==
    [][ Appended =>
          /\ (NewEvent.type = T_ToolEnd /\ StartIndexes(rawEvents, NewEvent.tool_name) = {})
                => /\ ViewModel(eventCache') = ViewModel(eventCache)
                   /\ runningTools'[NewEvent.tool_name] = Undefined
          /\ \A name \in ToolNames :
                EndsBeforeStarts(rawEvents', name)
                => /\ \A i \in StartIndexes(rawEvents', name) :
                         LET rec == CacheGet(eventCache', ToolKey(rawEvents'[i]))
                         IN  /\ rec.status = "running"
                             /\ rec.output = Undefined /\ rec.error = Undefined
                   /\ runningTools'[name] =
                         ToolKey(rawEvents'[MaxOf(StartIndexes(rawEvents', name))]) ]_allVars

\* C37 witness: the end of write_file came before its start; two thoughts
\* later the call is still running.
C37_Witness ==
    /\ rawEvents = <<ToolEndEvent("write_file", 1, TRUE), ToolStartEvent("write_file", 1),
                     PlainEvent(T_Thought, 1), PlainEvent(T_Thought, 1)>>
    /\ Len(eventCache) = 3
    /\ eventCache[1].key = <<"tool", "write_file", 1>> /\ eventCache[1].status = "running"
    /\ eventCache[1].output = Undefined
    /\ runningTools["write_file"] = <<"tool", "write_file", 1>>

\* The tool names that have a correlator entry.
RunningNames == {n \in ToolNames : runningTools[n] # Undefined}

\* C38: every correlator entry toolName -> key refers to exactly one record
\* of the cache, a TOOL_CALL of that tool name with status running and
\* neither output nor error; an entry is the tool key of its name, so a name
\* has one entry at most.
C38_CorrelatorRefersToRunning ==
    \A n \in RunningNames :
        /\ runningTools[n][1] = "tool" /\ runningTools[n][2] = n
        /\ Cardinality(RecordsWithKey(eventCache, runningTools[n])) = 1
        /\ CacheGet(eventCache, runningTools[n]).displayType = "TOOL_CALL"
        /\ CacheGet(eventCache, runningTools[n]).toolName = n
        /\ CacheGet(eventCache, runningTools[n]).status = "running"
        /\ CacheGet(eventCache, runningTools[n]).output = Undefined
        /\ CacheGet(eventCache, runningTools[n]).error = Undefined

\* C38 witness: read_file completed and was started again, write_file is
\* running; the two entries refer to the two running records.
C38_Witness ==
    /\ rawEvents = <<ToolStartEvent("read_file", 1), ToolEndEvent("read_file", 1, TRUE),
                     ToolStartEvent("read_file", 2), ToolStartEvent("write_file", 1)>>
    /\ RunningNames = ToolNames
    /\ Len(eventCache) = 3 /\ eventCache[1].status = "completed"
    /\ runningTools["read_file"] = eventCache[2].key
    /\ runningTools["write_file"] = eventCache[3].key

\* The ends for name in the Event Store with this outcome.
EndsOf(raw, name, ok) ==
    {raw[i] : i \in {j \in EndIndexes(raw, name) : raw[j].was_successful = ok}}

\* C39: every TOOL_CALL record of the cache is running with neither output
\* nor error, or completed with the response_preview of a successful end of
\* its tool name as output and no error, or error with the error of a failed
\* end of its tool name and no output; no record has both.
C39_RecordConsistent ==
    \A i \in 1..Len(eventCache) :
        LET rec == eventCache[i]
        IN  rec.displayType = "TOOL_CALL" =>
              /\ rec.status \in {"running", "completed", "error"}
              /\ rec.status = "running" => (rec.output = Undefined /\ rec.error = Undefined)
              /\ rec.status = "completed" =>
                    /\ rec.error = Undefined
                    /\ \E e \in EndsOf(rawEvents, rec.toolName, TRUE) :
                          rec.output = e.response_preview /\ rec.output # Undefined
              /\ rec.status = "error" =>
                    /\ rec.output = Undefined
                    /\ \E e \in EndsOf(rawEvents, rec.toolName, FALSE) :
                          rec.error = e.error /\ rec.error # Undefined
              /\ ~(rec.output # Undefined /\ rec.error # Undefined)

\* C39 witness: read_file failed, was started again and completed; the first
\* record carries the error only, the second the output only.
C39_Witness ==
    /\ rawEvents = <<ToolStartEvent("read_file", 1), ToolEndEvent("read_file", 1, FALSE),
                     ToolStartEvent("read_file", 2), ToolEndEvent("read_file", 1, TRUE)>>
    /\ Len(eventCache) = 2
    /\ eventCache[1].status = "error" /\ eventCache[1].error = <<"error", 1>>
    /\ eventCache[1].output = Undefined
    /\ eventCache[2].status = "completed" /\ eventCache[2].output = <<"preview", 1>>
    /\ eventCache[2].error = Undefined

====
